---- MODULE Spec2Model ----
(***************************************************************************)
(* Model of the styled-help attribute macro (styled-help/src/lib.rs).      *)
(*                                                                         *)
(* styled_help parses an item, walks the named fields of a struct and      *)
(* calls process_field on each of them, then re-emits the item.            *)
(* process_field turns the doc comments of a field into one                *)
(* #[arg(help = cstr!(..), long_help = cstr!(..))] attribute.              *)
(*                                                                         *)
(* Strings are sequences of one-character strings, so that contains, trim, *)
(* split and join are computed character by character as the code does.   *)
(***************************************************************************)
EXTENDS Naturals, Sequences, FiniteSets

VARIABLES item, pc, output, applied

vars == <<item, pc, output, applied>>

-----------------------------------------------------------------------------
(* Bounds of the model.                                                    *)

\* Fields of one item.
MaxFields == 2
\* Attributes of one item, all its fields together.
MaxAttrs == 3
\* Times the macro is applied to an item (stacked #[styled_help]).
MaxApply == 2
\* Doc attributes of the field of the text-shaping specification.
MaxDocs == 3
\* Words of all the doc attributes of that field together.
MaxWords == 3

-----------------------------------------------------------------------------
(* Strings: str::contains, str::trim, str::trim_end, str::split, join.     *)

\* char::is_whitespace, on the characters of the model.
IsWhitespace(c) == c \in {" ", "\n", "\t"}

\* str::contains(pat) for a non-empty pattern.
Contains(s, pat) ==
    \E i \in 1..Len(s) :
        /\ i + Len(pat) - 1 <= Len(s)
        /\ SubSeq(s, i, i + Len(pat) - 1) = pat

RECURSIVE TrimStart(_)
TrimStart(s) ==
    IF s # <<>> /\ IsWhitespace(Head(s)) THEN TrimStart(Tail(s)) ELSE s

RECURSIVE TrimEnd(_)
\* str::trim_end.
TrimEnd(s) ==
    IF s # <<>> /\ IsWhitespace(s[Len(s)])
    THEN TrimEnd(SubSeq(s, 1, Len(s) - 1))
    ELSE s

\* str::trim.
Trim(s) == TrimEnd(TrimStart(s))

\* str::ends_with(pat).
EndsWith(s, pat) ==
    /\ Len(pat) <= Len(s)
    /\ SubSeq(s, Len(s) - Len(pat) + 1, Len(s)) = pat

RECURSIVE Join(_, _)
\* [String]::join(sep).
Join(strs, sep) ==
    IF strs = <<>> THEN <<>>
    ELSE IF Len(strs) = 1 THEN strs[1]
    ELSE strs[1] \o sep \o Join(Tail(strs), sep)

RECURSIVE Split(_, _)
\* str::split(pat).collect(): the pieces between the successive,
\* non-overlapping, leftmost occurrences of pat; never empty.
Split(s, pat) ==
    IF Contains(s, pat)
    THEN LET i == CHOOSE k \in 1..Len(s) :
                    /\ k + Len(pat) - 1 <= Len(s)
                    /\ SubSeq(s, k, k + Len(pat) - 1) = pat
                    /\ \A j \in 1..(k - 1) :
                           SubSeq(s, j, j + Len(pat) - 1) # pat
         IN  <<SubSeq(s, 1, i - 1)>>
                 \o Split(SubSeq(s, i + Len(pat), Len(s)), pat)
    ELSE <<s>>

-----------------------------------------------------------------------------
(* Tokens and attributes (syn::Attribute, proc_macro2::TokenStream).       *)

Ident(s) == [t |-> "ident", s |-> s, ts |-> <<>>]
Punct(s) == [t |-> "punct", s |-> s, ts |-> <<>>]
LitStr(s) == [t |-> "lit", s |-> s, ts |-> <<>>]
Group(ts) == [t |-> "group", s |-> <<>>, ts |-> ts]

RECURSIVE Escape(_)
\* The source text of a string literal's content.
Escape(s) ==
    IF s = <<>> THEN <<>>
    ELSE (CASE Head(s) = "\n" -> <<"\\", "n">>
            [] Head(s) = "\t" -> <<"\\", "t">>
            [] Head(s) = "\"" -> <<"\\", "\"">>
            [] Head(s) = "\\" -> <<"\\", "\\">>
            [] OTHER -> <<Head(s)>>) \o Escape(Tail(s))

RECURSIVE TokensToString(_)
\* TokenStream::to_string(): the tokens' texts, one space between two
\* tokens; a string literal in quotes; a group in its parentheses.
TokensToString(ts) ==
    IF ts = <<>> THEN <<>>
    ELSE LET tok == Head(ts)
             text == CASE tok.t = "lit" -> <<"\"">> \o Escape(tok.s) \o <<"\"">>
                       [] tok.t = "group" ->
                              <<"(">> \o TokensToString(tok.ts) \o <<")">>
                       [] OTHER -> tok.s
         IN  IF Len(ts) = 1 THEN text
             ELSE text \o <<" ">> \o TokensToString(Tail(ts))

\* #[path(tokens)]
ListAttr(path, tokens) ==
    [path |-> path, meta |-> "list", tokens |-> tokens, value |-> <<>>]

\* #[doc = "content"], what a `/// content` doc comment is.
DocAttr(content) ==
    [path |-> "doc", meta |-> "namevalue", tokens |-> <<>>,
     value |-> <<LitStr(content)>>]

s_help == <<"h", "e", "l", "p">>
s_long_help == <<"l", "o", "n", "g", "_">> \o s_help
s_help_heading == s_help \o <<"_", "h", "e", "a", "d", "i", "n", "g">>
s_long == <<"l", "o", "n", "g">>
s_hidden == <<"h", "i", "d", "d", "e", "n">>
s_color_print == <<"c", "o", "l", "o", "r", "_", "p", "r", "i", "n", "t">>
s_cstr == <<"c", "s", "t", "r">>

\* ::color_print::cstr!(#text)
Cstr(text) ==
    <<Punct(<<":", ":">>), Ident(s_color_print), Punct(<<":", ":">>),
      Ident(s_cstr), Punct(<<"!">>), Group(<<LitStr(text)>>)>>

\* #[arg(help = ::color_print::cstr!(#short_help),
\*       long_help = ::color_print::cstr!(#long_help))]
HelpAttr(short_help, long_help) ==
    ListAttr("arg",
        <<Ident(s_help), Punct(<<"=">>)>> \o Cstr(short_help)
            \o <<Punct(<<",">>), Ident(s_long_help), Punct(<<"=">>)>>
            \o Cstr(long_help))

-----------------------------------------------------------------------------
(* process_field.                                                          *)

\* "help =" and "long_help =", the patterns of the existing-help check.
pat_help == s_help \o <<" ", "=">>
pat_long_help == s_long_help \o <<" ", "=">>

\* has_existing_help looking for "help" alone, without the " =".
has_existing_help_bare(attrs) ==
    \E i \in 1..Len(attrs) :
        /\ attrs[i].path = "arg"
        /\ attrs[i].meta = "list"
        /\ Contains(TokensToString(attrs[i].tokens), s_help)

\* has_existing_help with the patterns written without the space,
\* "help=" and "long_help=".
has_existing_help_nospace(attrs) ==
    \E i \in 1..Len(attrs) :
        /\ attrs[i].path = "arg"
        /\ attrs[i].meta = "list"
        /\ LET tokens_str == TokensToString(attrs[i].tokens)
           IN  \/ Contains(tokens_str, s_help \o <<"=">>)
               \/ Contains(tokens_str, s_long_help \o <<"=">>)

\* The first loop: some #[arg(..)] list attribute whose tokens, as a
\* string, contain "help =" or "long_help =".
has_existing_help(attrs) ==
    \E i \in 1..Len(attrs) :
        /\ attrs[i].path = "arg"
        /\ attrs[i].meta = "list"
        /\ LET tokens_str == TokensToString(attrs[i].tokens)
           IN  \/ Contains(tokens_str, pat_help)
               \/ Contains(tokens_str, pat_long_help)

\* The attributes the second loop reads: #[doc = "string literal"].
IsDocLit(attr) ==
    /\ attr.path = "doc"
    /\ attr.meta = "namevalue"
    /\ Len(attr.value) = 1
    /\ attr.value[1].t = "lit"

\* lit_str.value() of every doc attribute the second loop reads, in order.
doc_contents(attrs) ==
    LET lits == SelectSeq(attrs, IsDocLit)
    IN  [i \in 1..Len(lits) |-> lits[i].value[1].s]

\* doc_lines: doc_content.trim() of each.
doc_lines(attrs) ==
    LET contents == doc_contents(attrs)
    IN  [i \in 1..Len(contents) |-> Trim(contents[i])]

\* The closed set of style markers.
Markers ==
    { <<"<", "c", ">">>, <<"<", "/", ">">>, <<"<", "s", ">">>,
      <<"<", "u", ">">>, <<"<", "k", ">">>, <<"<", "r", ">">>,
      <<"<", "g", ">">>, <<"<", "b", ">">>, <<"<", "y", ">">>,
      <<"<", "m", ">">>, <<"<", "c", "y", "a", "n", ">">>,
      <<"<", "w", "h", "i", "t", "e", ">">> }

\* doc_content.contains("<c>") || ... || doc_content.contains("<white>")
ContainsMarker(doc_content) == \E m \in Markers : Contains(doc_content, m)

RECURSIVE ScanMarkers_last_wins(_, _)
\* ScanMarkers without `if !has_style_markers`: every doc content
\* overwrites the flag.
ScanMarkers_last_wins(contents, flag) ==
    IF contents = <<>> THEN flag
    ELSE ScanMarkers_last_wins(Tail(contents), ContainsMarker(Head(contents)))

RECURSIVE ScanMarkers(_, _)
\* has_style_markers after the second loop: each doc content is tested
\* only while the flag is still false.
ScanMarkers(contents, flag) ==
    IF contents = <<>> THEN flag
    ELSE ScanMarkers(Tail(contents),
                     IF ~flag THEN ContainsMarker(Head(contents)) ELSE flag)

has_style_markers(attrs) == ScanMarkers(doc_contents(attrs), FALSE)

\* NothingToStyle without the marker gate.
NothingToStyle_no_gate(lines, styled) == lines = <<>>

\* if doc_lines.is_empty() || !has_style_markers { return; }
NothingToStyle(lines, styled) == lines = <<>> \/ ~styled

\* field.attrs.retain(|attr| !attr.path().is_ident("doc"))
IsNotDoc(attr) == attr.path # "doc"
IsArg(attr) == attr.path = "arg"

\* RetainNonDoc keeping the #[arg] attributes only.
RetainNonDoc_args_only(attrs) == SelectSeq(attrs, IsArg)

RetainNonDoc(attrs) == SelectSeq(attrs, IsNotDoc)

RECURSIVE TrimEndPeriods(_)
TrimEndPeriods(s) ==
    IF s # <<>> /\ s[Len(s)] = "."
    THEN TrimEndPeriods(SubSeq(s, 1, Len(s) - 1))
    ELSE s

\* ShortHelp with trim_end_matches('.'): every trailing period dropped.
ShortHelp_all_periods(combined_doc) ==
    TrimEndPeriods(TrimEnd(Split(combined_doc, <<"\n", "\n">>)[1]))

\* The first paragraph of the combined text, right-trimmed, without one
\* trailing period.
ShortHelp(combined_doc) ==
    LET paragraphs == Split(combined_doc, <<"\n", "\n">>)
        first_para == paragraphs[1]
        trimmed == TrimEnd(first_para)
    IN  IF EndsWith(trimmed, <<".">>)
        THEN SubSeq(trimmed, 1, Len(trimmed) - 1)
        ELSE trimmed

\* process_field without the existing-help check and without the removal
\* of the doc comments it has read.
process_field_unguarded(attrs) ==
    IF NothingToStyle(doc_lines(attrs), has_style_markers(attrs)) THEN attrs
    ELSE LET combined_doc == Join(doc_lines(attrs), <<"\n">>)
         IN  Append(attrs, HelpAttr(ShortHelp(combined_doc), combined_doc))

\* process_field of the superseded policy that wraps every documented
\* field, markers or not.
process_field_always_wrap(attrs) ==
    IF has_existing_help(attrs) \/ doc_lines(attrs) = <<>> THEN attrs
    ELSE LET combined_doc == Join(doc_lines(attrs), <<"\n">>)
         IN  Append(RetainNonDoc(attrs),
                    HelpAttr(ShortHelp(combined_doc), combined_doc))

\* process_field: the attribute list of the field after the call.
process_field(attrs) ==
    IF has_existing_help(attrs) THEN attrs
    ELSE IF NothingToStyle(doc_lines(attrs), has_style_markers(attrs))
    THEN attrs
    ELSE LET combined_doc == Join(doc_lines(attrs), <<"\n">>)
             short_help == ShortHelp(combined_doc)
             long_help == combined_doc
         IN  Append(RetainNonDoc(attrs), HelpAttr(short_help, long_help))

-----------------------------------------------------------------------------
(* The items the macro is applied to.                                      *)

RECURSIVE SeqsOfLen(_, _)
\* The sequences over S of length n.
SeqsOfLen(S, n) ==
    IF n = 0 THEN {<<>>}
    ELSE {Append(q, x) : q \in SeqsOfLen(S, n - 1), x \in S}

\* The attributes of the fields of the structural specification.
AttrVocab ==
    { DocAttr(<<" ", "<", "c", ">", "a", ".">>),
      DocAttr(<<" ", "a", ".">>),
      ListAttr("doc", <<Ident(s_hidden)>>),
      ListAttr("arg", <<Ident(s_long)>>),
      ListAttr("arg", <<Ident(s_help), Punct(<<"=">>), LitStr(<<"x">>)>>),
      ListAttr("arg", <<Ident(s_long_help), Punct(<<"=">>), LitStr(<<"x">>)>>),
      ListAttr("arg", <<Ident(s_help_heading), Punct(<<"=">>), LitStr(<<"X">>)>>),
      ListAttr("clap", <<Ident(s_help), Punct(<<"=">>), LitStr(<<"x">>)>>) }

\* The ways to cut a sequence of n elements into nf consecutive lists:
\* c[i] is where list i ends.
CutPoints(nf, n) ==
    { c \in [1..nf -> 0..n] :
        /\ \A i \in 1..(nf - 1) : c[i] <= c[i + 1]
        /\ IF nf = 0 THEN n = 0 ELSE c[nf] = n }

\* The lists a sequence q is cut into at the cut points c.
CutAt(q, c) ==
    [i \in 1..Len(c) |-> SubSeq(q, (IF i = 1 THEN 0 ELSE c[i - 1]) + 1, c[i])]

\* syn::Field: its identifier (here its position) and its attributes.
MkFields(lists) == [i \in 1..Len(lists) |-> [ident |-> i, attrs |-> lists[i]]]

\* What an attribute macro can be put on: a struct with named fields, a
\* tuple struct, a unit struct, an enum, a union, or an item that is no
\* DeriveInput (a function).
Shapes == { <<"struct", "named">>, <<"struct", "unnamed">> }
FieldlessShapes == { <<"struct", "unit">>, <<"enum", "unit">>, <<"fn", "unit">> }

MkItem(shape, lists) ==
    [kind |-> shape[1], style |-> shape[2], fields |-> MkFields(lists)]

\* The items of the structural specification: at most MaxFields fields
\* carrying at most MaxAttrs attributes altogether, or an item without
\* fields.
IsItem(it) ==
    \/ \E sh \in Shapes, n \in 0..MaxAttrs, nf \in 0..MaxFields :
           \E q \in SeqsOfLen(AttrVocab, n), c \in CutPoints(nf, n) :
               it = MkItem(sh, CutAt(q, c))
    \/ \E sh \in FieldlessShapes : it = MkItem(sh, <<>>)

\* The words the doc comments of the text-shaping specification are made of.
DocWords == { <<"<", "c", ">">>, <<"<", "/", ">">>, <<".">>, <<" ">>, <<"a">> }

RECURSIVE Concat(_)
Concat(words) == IF words = <<>> THEN <<>> ELSE Head(words) \o Concat(Tail(words))

\* A named struct of one field whose attributes are doc comments: at most
\* MaxDocs lines of at most MaxWords words altogether.
IsTextItem(it) ==
    \E n \in 0..MaxWords, nl \in 0..MaxDocs :
        \E q \in SeqsOfLen(DocWords, n), c \in CutPoints(nl, n) :
            LET wl == CutAt(q, c)
            IN  it = MkItem(<<"struct", "named">>,
                            <<[i \in 1..Len(wl) |-> DocAttr(Concat(wl[i]))]>>)

-----------------------------------------------------------------------------
(* styled_help.                                                            *)

NoItem == [kind |-> "none", style |-> "unit", fields |-> <<>>]
\* What parse_macro_input! returns from the macro on a parse error.
CompileError == [kind |-> "compile_error", style |-> "unit", fields |-> <<>>]
NoOutput == [ok |-> FALSE, item |-> NoItem]

\* The items syn parses as a DeriveInput.
IsDeriveInput(it) == it.kind \in {"struct", "enum", "union"}

\* HasNamedFields without the test of the fields' style.
HasNamedFields_any_struct(inp) == inp.kind = "struct"

\* if let syn::Data::Struct(..) = input.data
\*     if let syn::Fields::Named(..) = data_struct.fields
HasNamedFields(inp) == inp.kind = "struct" /\ inp.style = "named"

\* The macro: parse_macro_input!(item as DeriveInput), process_field on
\* every named field of a struct in declaration order, and the re-emission
\* of the (possibly changed) input.
styled_help(it) ==
    IF ~IsDeriveInput(it)
    THEN [ok |-> FALSE, item |-> CompileError]
    ELSE [ok |-> TRUE,
          item |-> IF HasNamedFields(it)
                   THEN [it EXCEPT !.fields =
                            [i \in 1..Len(it.fields) |->
                                [it.fields[i] EXCEPT !.attrs = process_field(@)]]]
                   ELSE it]

Init ==
    /\ IsItem(item)
    /\ pc = "start"
    /\ output = NoOutput
    /\ applied = 0

InitText ==
    /\ IsTextItem(item)
    /\ pc = "start"
    /\ output = NoOutput
    /\ applied = 0

\* One expansion of #[styled_help] on item.
StyledHelp ==
    /\ pc = "start"
    /\ output' = styled_help(item)
    /\ pc' = "done"
    /\ applied' = applied + 1
    /\ UNCHANGED item

\* The macro applied to its own output: #[styled_help] written twice.
Reapply ==
    /\ pc = "done"
    /\ output.ok
    /\ applied < MaxApply
    /\ item' = output.item
    /\ pc' = "start"
    /\ output' = NoOutput
    /\ UNCHANGED applied

Next == StyledHelp \/ Reapply

Spec == Init /\ [][Next]_vars

NextText == StyledHelp

SpecText == InitText /\ [][NextText]_vars

-----------------------------------------------------------------------------
(* What the properties speak of: the fields of the item before and after   *)
(* one expansion, described without the operators of process_field.        *)

\* One expansion of a struct with named fields has finished.
NamedDone ==
    /\ pc = "done"
    /\ item.kind = "struct"
    /\ item.style = "named"
    /\ output.ok
    /\ Len(output.item.fields) = Len(item.fields)

Before(i) == item.fields[i].attrs
After(i) == output.item.fields[i].attrs

\* The text of an #[arg(..)] attribute holds the given substring.
ArgBlobHas(attrs, sub) ==
    \E i \in 1..Len(attrs) :
        /\ attrs[i].path = "arg"
        /\ attrs[i].meta = "list"
        /\ Contains(TokensToString(attrs[i].tokens), sub)

\* The existing metadata holds `help =` or `long_help =`.
ExplicitHelp(attrs) ==
    \/ ArgBlobHas(attrs, <<"h", "e", "l", "p", " ", "=">>)
    \/ ArgBlobHas(attrs, <<"l", "o", "n", "g", "_", "h", "e", "l", "p", " ", "=">>)

RECURSIVE DocTexts(_)
\* The texts of the doc comments of a field, in source order.
DocTexts(attrs) ==
    IF attrs = <<>> THEN <<>>
    ELSE LET a == attrs[Len(attrs)]
             front == DocTexts(SubSeq(attrs, 1, Len(attrs) - 1))
         IN  IF a.path = "doc" /\ a.meta = "namevalue" /\ a.value # <<>>
             THEN Append(front, a.value[1].s)
             ELSE front

\* Some doc comment of the field holds a style marker.
SomeLineStyled(attrs) ==
    \E k \in 1..Len(DocTexts(attrs)) :
        \E m \in Markers : Contains(DocTexts(attrs)[k], m)

\* #[arg(help = ::color_print::cstr!("short"),
\*       long_help = ::color_print::cstr!("long"))]: both strings raw.
RawHelpDecl(short, long) ==
    [path |-> "arg", meta |-> "list", value |-> <<>>,
     tokens |->
        <<Ident(s_help), Punct(<<"=">>),
          Punct(<<":", ":">>), Ident(s_color_print), Punct(<<":", ":">>),
          Ident(s_cstr), Punct(<<"!">>), Group(<<LitStr(short)>>),
          Punct(<<",">>), Ident(s_long_help), Punct(<<"=">>),
          Punct(<<":", ":">>), Ident(s_color_print), Punct(<<":", ":">>),
          Ident(s_cstr), Punct(<<"!">>), Group(<<LitStr(long)>>)>>]

\* #[arg(help = "short", long_help = "long")]: both strings literal.
PlainHelpDecl(short, long) ==
    [path |-> "arg", meta |-> "list", value |-> <<>>,
     tokens |->
        <<Ident(s_help), Punct(<<"=">>), LitStr(short),
          Punct(<<",">>), Ident(s_long_help), Punct(<<"=">>), LitStr(long)>>]

\* The attribute is a raw help declaration; ShortOf and LongOf are its
\* two strings.
IsRawDecl(a) ==
    /\ a.path = "arg"
    /\ a.meta = "list"
    /\ Len(a.tokens) = 17
    /\ a.tokens[8].t = "group"
    /\ Len(a.tokens[8].ts) = 1
    /\ a.tokens[17].t = "group"
    /\ Len(a.tokens[17].ts) = 1
    /\ a = RawHelpDecl(a.tokens[8].ts[1].s, a.tokens[17].ts[1].s)

ShortOf(a) == a.tokens[8].ts[1].s
LongOf(a) == a.tokens[17].ts[1].s

\* The attribute is a plain help declaration.
IsPlainDecl(a) ==
    /\ a.path = "arg"
    /\ a.meta = "list"
    /\ Len(a.tokens) = 7
    /\ a.tokens[3].t = "lit"
    /\ a.tokens[7].t = "lit"
    /\ a = PlainHelpDecl(a.tokens[3].s, a.tokens[7].s)

\* A generated help declaration, raw or plain.
IsHelpDecl(a) == IsRawDecl(a) \/ IsPlainDecl(a)
NumDecls(attrs) == Len(SelectSeq(attrs, IsHelpDecl))

\* The expansion gave field i a help declaration it did not have.
Emitted(i) == NumDecls(After(i)) > NumDecls(Before(i))

\* The positions of s that hold no whitespace.
Inked(s) == {k \in 1..Len(s) : s[k] \notin {" ", "\n", "\t"}}
Least(S) == CHOOSE x \in S : \A y \in S : x <= y
Greatest(S) == CHOOSE x \in S : \A y \in S : y <= x

\* s without its leading and trailing whitespace.
Stripped(s) ==
    IF Inked(s) = {} THEN <<>> ELSE SubSeq(s, Least(Inked(s)), Greatest(Inked(s)))

\* s without its trailing whitespace.
RStripped(s) ==
    IF Inked(s) = {} THEN <<>> ELSE SubSeq(s, 1, Greatest(Inked(s)))

RECURSIVE NewlineJoined(_)
\* The lines, a single newline between two of them.
NewlineJoined(lines) ==
    IF lines = <<>> THEN <<>>
    ELSE IF Len(lines) = 1 THEN lines[1]
    ELSE NewlineJoined(SubSeq(lines, 1, Len(lines) - 1))
             \o <<"\n">> \o lines[Len(lines)]

\* The long help the doc comments of a field stand for.
ExpectedLong(attrs) ==
    NewlineJoined([k \in 1..Len(DocTexts(attrs)) |-> Stripped(DocTexts(attrs)[k])])

\* The positions where a blank line ("\n\n") starts.
ParagraphBreaks(text) ==
    {k \in 1..(Len(text) - 1) : text[k] = "\n" /\ text[k + 1] = "\n"}

\* The text before the first blank line, the whole text without one.
FirstParagraph(text) ==
    IF ParagraphBreaks(text) = {} THEN text
    ELSE SubSeq(text, 1, Least(ParagraphBreaks(text)) - 1)

\* The short help of a long help.
ExpectedShort(long) ==
    LET r == RStripped(FirstParagraph(long))
    IN  IF r # <<>> /\ r[Len(r)] = "." THEN SubSeq(r, 1, Len(r) - 1) ELSE r

\* A marker of the closed set occurs in the text.
MarkerIn(text) == \E m \in Markers : Contains(text, m)

\* The last attribute of field i after the expansion.
LastAfter(i) == After(i)[Len(After(i))]

\* The two strings of a help declaration of either form.
HelpShort(a) == IF IsRawDecl(a) THEN ShortOf(a) ELSE a.tokens[3].s
HelpLong(a) == IF IsRawDecl(a) THEN LongOf(a) ELSE a.tokens[7].s

RECURSIVE NonDoc(_)
\* The attributes of a field that are no documentation attributes, in
\* their order.
NonDoc(attrs) ==
    IF attrs = <<>> THEN <<>>
    ELSE IF Head(attrs).path = "doc" THEN NonDoc(Tail(attrs))
    ELSE <<Head(attrs)>> \o NonDoc(Tail(attrs))

\* No documentation attribute is left on the field.
NoDocLeft(attrs) == \A k \in 1..Len(attrs) : attrs[k].path # "doc"

\* The field's metadata holds `help_heading = "X"` and neither `help =`
\* nor `long_help =`.
HeadingOnly(attrs) ==
    /\ ArgBlobHas(attrs, s_help_heading \o <<" ", "=", " ", "\"", "X", "\"">>)
    /\ ~ExplicitHelp(attrs)

\* The lines of a text.
LinesOf(text) ==
    {Split(text, <<"\n">>)[k] : k \in 1..Len(Split(text, <<"\n">>))}

\* The expansion of a struct made of the one field with these attributes.
AloneAfter(attrs) ==
    styled_help(MkItem(<<"struct", "named">>, <<attrs>>)).item.fields[1].attrs

-----------------------------------------------------------------------------
(* Properties.                                                             *)

\* C1: a field whose existing metadata holds `help =` or `long_help =`,
\* and a field without doc lines, whatever its other metadata, comes out
\* of process_field unchanged: the same attributes in the same order.
C1_SilentNoOp ==
    NamedDone =>
        \A i \in 1..Len(item.fields) :
            (ExplicitHelp(Before(i)) \/ DocTexts(Before(i)) = <<>>)
                => After(i) = Before(i)

\* A field with explicit help and a styled doc comment was expanded and
\* kept both.
C1_Witness ==
    /\ NamedDone
    /\ \E i \in 1..Len(item.fields) :
           /\ ExplicitHelp(Before(i))
           /\ SomeLineStyled(Before(i))
           /\ After(i) = Before(i)

\* C2: one expansion gives a field a new help declaration exactly when
\* the field has no explicit help, has doc lines, and a style marker is
\* found in them.
C2_EmittedIff ==
    NamedDone =>
        \A i \in 1..Len(item.fields) :
            Emitted(i) <=>
                /\ ~ExplicitHelp(Before(i))
                /\ DocTexts(Before(i)) # <<>>
                /\ SomeLineStyled(Before(i))

\* One field got a declaration while another, with plain doc lines and no
\* explicit help, got none.
C2_Witness ==
    /\ NamedDone
    /\ \E i, j \in 1..Len(item.fields) :
           /\ Emitted(i)
           /\ ~Emitted(j)
           /\ ~ExplicitHelp(Before(j))
           /\ DocTexts(Before(j)) # <<>>

\* C3 as stated: a field without explicit help whose doc text holds no
\* style marker and ends its first paragraph with a period gets a plain
\* (non-raw) pair, the short help without the trailing period and the long
\* help with it.
C3_PlainPairEmitted ==
    NamedDone =>
        \A i \in 1..Len(item.fields) :
            (/\ ~ExplicitHelp(Before(i))
             /\ DocTexts(Before(i)) # <<>>
             /\ ~SomeLineStyled(Before(i))
             /\ ExpectedShort(ExpectedLong(Before(i))) # ExpectedLong(Before(i)))
                => /\ After(i) # <<>>
                   /\ LastAfter(i) =
                          PlainHelpDecl(ExpectedShort(ExpectedLong(Before(i))),
                                        ExpectedLong(Before(i)))

\* C3, amended: a field without explicit help whose doc lines hold no
\* style marker is left unchanged: no declaration is emitted and its doc
\* comments stay in place.
C3_PlainLeftAlone ==
    NamedDone =>
        \A i \in 1..Len(item.fields) :
            (/\ ~ExplicitHelp(Before(i))
             /\ DocTexts(Before(i)) # <<>>
             /\ ~SomeLineStyled(Before(i)))
                => After(i) = Before(i)

\* A field whose only doc text ends with a period and holds no marker was
\* expanded.
C3_Witness ==
    /\ NamedDone
    /\ Len(item.fields) = 1
    /\ ~ExplicitHelp(Before(1))
    /\ DocTexts(Before(1)) # <<>>
    /\ ~SomeLineStyled(Before(1))
    /\ ExpectedShort(ExpectedLong(Before(1))) # ExpectedLong(Before(1))
    /\ After(1) = Before(1)

\* C4: whenever a declaration is emitted, its long help is the trimmed
\* doc lines joined by single newlines in source order, and its short help
\* is the part of the long help before the first blank line, right-trimmed,
\* with exactly one trailing period removed if there is one.
C4_ShortAndLong ==
    NamedDone =>
        \A i \in 1..Len(item.fields) :
            Emitted(i) =>
                /\ IsHelpDecl(LastAfter(i))
                /\ HelpLong(LastAfter(i)) = ExpectedLong(Before(i))
                /\ HelpShort(LastAfter(i)) = ExpectedShort(ExpectedLong(Before(i)))

\* A declaration was emitted for a text of two paragraphs whose first ends
\* with a period: the short help stops before the period, the long help
\* keeps all of it.
C4_Witness ==
    /\ NamedDone
    /\ Len(item.fields) = 1
    /\ Emitted(1)
    /\ IsRawDecl(LastAfter(1))
    /\ LET long == LongOf(LastAfter(1))
           short == ShortOf(LastAfter(1))
       IN  /\ ParagraphBreaks(long) # {}
           /\ Len(short) + 1 = Least(ParagraphBreaks(long)) - 1
           /\ long[Len(short) + 1] = "."
           /\ Len(long) > Least(ParagraphBreaks(long)) + 1

\* C6: for a field without explicit help, a marker of the closed set
\* anywhere in the joined documentation text, on any line and balanced or
\* not, makes the expansion emit a declaration whose short and long help
\* are both raw and hold the text verbatim; and the flag of the per-line
\* scan equals a scan of the joined text.
C6_MarkerAnywhere ==
    NamedDone =>
        \A i \in 1..Len(item.fields) :
            ~ExplicitHelp(Before(i)) =>
                LET long == ExpectedLong(Before(i))
                IN  /\ has_style_markers(Before(i)) <=> MarkerIn(long)
                    /\ MarkerIn(long) =>
                           /\ After(i) # <<>>
                           /\ IsRawDecl(LastAfter(i))
                           /\ LongOf(LastAfter(i)) = long
                           /\ Len(ShortOf(LastAfter(i))) <= Len(long)
                           /\ ShortOf(LastAfter(i)) =
                                  SubSeq(long, 1, Len(ShortOf(LastAfter(i))))

\* The only marker is an unclosed <c> on a line after the first, and the
\* declaration emitted is raw.
C6_Witness ==
    /\ NamedDone
    /\ Len(item.fields) = 1
    /\ Len(DocTexts(Before(1))) >= 2
    /\ ~MarkerIn(DocTexts(Before(1))[1])
    /\ \E k \in 2..Len(DocTexts(Before(1))) :
           Contains(DocTexts(Before(1))[k], <<"<", "c", ">">>)
    /\ ~Contains(ExpectedLong(Before(1)), <<"<", "/", ">">>)
    /\ After(1) # <<>>
    /\ IsRawDecl(LastAfter(1))
    /\ Contains(ShortOf(LastAfter(1)), <<"<", "c", ">">>)

\* C5: applying the expansion to its own result changes nothing, whatever
\* the field (explicit help or not, doc lines or not, styled or not), and
\* after any number of expansions a field carries at most one generated
\* help declaration.
C5_Idempotent ==
    /\ (pc = "done" /\ applied >= 2) => (output.ok /\ output.item = item)
    /\ NamedDone =>
           \A i \in 1..Len(item.fields) : NumDecls(After(i)) <= 1

\* The second expansion of a struct has finished, and a field of it
\* carries the declaration the first one generated.
C5_Witness ==
    /\ NamedDone
    /\ applied = 2
    /\ \E i \in 1..Len(item.fields) :
           /\ NumDecls(Before(i)) = 1
           /\ NumDecls(After(i)) = 1

\* C7 as stated: given a tuple-like struct with unnamed fields or an enum,
\* the expansion aborts with a build-time failure and returns no re-emitted
\* structure.
C7_UnsupportedAborts ==
    (/\ pc = "done"
     /\ \/ item.kind = "struct" /\ item.style = "unnamed" /\ item.fields # <<>>
        \/ item.kind = "enum")
        => ~output.ok

\* C7, amended: given a tuple-like struct, a unit struct or an enum, the
\* expansion does not fail: it returns the structure re-emitted unchanged,
\* no field of it transformed.  The expansion fails only on an item that
\* is no struct, enum or union.
C7_UnsupportedPassThrough ==
    pc = "done" =>
        /\ (/\ item.kind \in {"struct", "enum", "union"}
            /\ ~(item.kind = "struct" /\ item.style = "named"))
               => (output.ok /\ output.item = item)
        /\ ~output.ok <=> item.kind \notin {"struct", "enum", "union"}

\* A tuple struct with a field that a named struct would have had
\* transformed was expanded and came out as it went in.
C7_Witness ==
    /\ pc = "done"
    /\ item.kind = "struct"
    /\ item.style = "unnamed"
    /\ \E i \in 1..Len(item.fields) :
           /\ ~ExplicitHelp(Before(i))
           /\ SomeLineStyled(Before(i))
    /\ output.ok
    /\ output.item = item

\* C8 as stated: a documented field whose metadata holds
\* `help_heading = "X"` and no `help =` / `long_help =` is transformed: a
\* help declaration is emitted and the doc lines are consumed.
C8_HeadingTransformed ==
    NamedDone =>
        \A i \in 1..Len(item.fields) :
            (HeadingOnly(Before(i)) /\ DocTexts(Before(i)) # <<>>)
                => (Emitted(i) /\ NoDocLeft(After(i)))

\* C8, amended: for such a field the existing-help check does not fire on
\* `help_heading`; the field is transformed (a declaration emitted, the
\* doc lines consumed) when its doc lines hold a style marker, and is left
\* unchanged when they hold none.
C8_HeadingNoFalsePositive ==
    NamedDone =>
        \A i \in 1..Len(item.fields) :
            (HeadingOnly(Before(i)) /\ DocTexts(Before(i)) # <<>>)
                => IF SomeLineStyled(Before(i))
                   THEN Emitted(i) /\ NoDocLeft(After(i))
                   ELSE After(i) = Before(i)

\* A field with `help_heading = "X"` and a styled doc comment got its
\* declaration.
C8_Witness ==
    /\ NamedDone
    /\ \E i \in 1..Len(item.fields) :
           /\ HeadingOnly(Before(i))
           /\ SomeLineStyled(Before(i))
           /\ Emitted(i)
           /\ NoDocLeft(After(i))

\* C9: whenever a declaration is emitted, no documentation attribute is
\* left on the field, and every documentation attribute removed is
\* represented in the emitted long help: its trimmed content is one of the
\* joined lines.
C9_NoDuplication ==
    NamedDone =>
        \A i \in 1..Len(item.fields) :
            Emitted(i) =>
                /\ NoDocLeft(After(i))
                /\ \A k \in 1..Len(Before(i)) :
                       Before(i)[k].path = "doc" =>
                           /\ Before(i)[k].meta = "namevalue"
                           /\ Before(i)[k].value # <<>>
                           /\ Stripped(Before(i)[k].value[1].s)
                                  \in LinesOf(HelpLong(LastAfter(i)))

====
